---------------------------- MODULE Spec2Model ----------------------------
(***************************************************************************)
(* A model of deps (github.com/grahamking/deps, deps.go): the recursive    *)
(* import traversal `analyze`, the filtering policy (isStdlib,             *)
(* isThirdParty), and the five display projections.                        *)
(*                                                                         *)
(* Import paths are Go strings.  They are modelled as sequences of         *)
(* one-character strings so that strings.HasPrefix, strings.Replace,       *)
(* strings.Trim and sort.Strings can be computed as the code computes them.*)
(***************************************************************************)
EXTENDS Integers, Sequences, FiniteSets, TLC

(***************************************************************************)
(* Bounds of the model.                                                    *)
(***************************************************************************)
\* number of packages of the analysed project (root included)
NumPkgs == 4
\* longest import list drawn for the packages of the mixed (filter) family
MaxImports == 2
\* number of nested analyze frames the goroutine stack holds before the Go
\* runtime aborts the process with "stack overflow"
MaxStack == 6

(***************************************************************************)
(* Strings.                                                                *)
(***************************************************************************)
github == <<"g","i","t","h","u","b",".","c","o","m">>
bitbucket == <<"b","i","t","b","u","c","k","e","t",".","o","r","g">>
launchpad == <<"l","a","u","n","c","h","p","a","d",".","n","e","t">>
codegoogle == <<"c","o","d","e",".","g","o","o","g","l","e",".","c","o","m">>

thirdPartyRoots == <<github, bitbucket, launchpad, codegoogle>>

\* the pseudo-import of cgo
CImport == <<"C">>

\* strings.HasPrefix
HasPrefix(s, prefix) ==
    /\ Len(s) >= Len(prefix)
    /\ SubSeq(s, 1, Len(prefix)) = prefix

\* the characters of the model's strings in byte order (sort.Strings compares
\* bytes)
ByteOrder ==
    <<" ", ".", "/", "0", "1", "2", "3", "4", "5", "6", "7", "8", "9", "C",
      "a", "b", "c", "d", "e", "f", "g", "h", "i", "j", "k", "l", "m", "n",
      "o", "p", "q", "r", "s", "t", "u", "v", "w", "x", "y", "z">>

Byte(c) == CHOOSE i \in 1..Len(ByteOrder) : ByteOrder[i] = c

\* the smallest element of a non-empty set of integers
Least(S) == CHOOSE x \in S : \A y \in S : x <= y

\* Go's < on strings
StrLess(a, b) ==
    LET n == IF Len(a) < Len(b) THEN Len(a) ELSE Len(b)
        diff == {i \in 1..n : a[i] # b[i]}
    IN  IF diff = {} THEN Len(a) < Len(b)
        ELSE Byte(a[Least(diff)]) < Byte(b[Least(diff)])

\* sort.Strings: v[i] comes after the strings below it and the equal ones
\* before it
Sorted(v) ==
    LET place(i) ==
            1 + Cardinality({j \in 1..Len(v) : StrLess(v[j], v[i])})
              + Cardinality({j \in 1..(i - 1) : v[j] = v[i]})
    IN  [k \in 1..Len(v) |-> v[CHOOSE i \in 1..Len(v) : place(i) = k]]

\* sort.Strings (the argument is evaluated once)
SortStrings(ss) == CHOOSE r \in {Sorted(v) : v \in {ss}} : TRUE

\* the %d verb of fmt for a non-negative int
RECURSIVE Itoa(_)
Itoa(n) ==
    IF n < 10 THEN <<ByteOrder[n + 4]>>
    ELSE Itoa(n \div 10) \o <<ByteOrder[(n % 10) + 4]>>

\* index of the first occurrence of old in s at or after i, 0 when absent
RECURSIVE IndexFrom(_, _, _)
IndexFrom(s, old, i) ==
    IF i + Len(old) - 1 > Len(s) THEN 0
    ELSE IF SubSeq(s, i, i + Len(old) - 1) = old THEN i
    ELSE IndexFrom(s, old, i + 1)

\* strings.Replace(s, old, "", 1) for a non-empty old
ReplaceFirst(s, old) ==
    LET at == IndexFrom(s, old, 1)
    IN  IF at = 0 THEN s
        ELSE SubSeq(s, 1, at - 1) \o SubSeq(s, at + Len(old), Len(s))

\* strings.Trim(s, "/")
TrimSlash(s) ==
    LET kept == {i \in 1..Len(s) : s[i] # "/"}
    IN  IF kept = {} THEN <<>>
        ELSE SubSeq(s, Least(kept), CHOOSE i \in kept : \A j \in kept : j <= i)

Range(f) == {f[i] : i \in DOMAIN f}

\* the sequences of distinct elements of S of length at most n
DistinctSeqs(S, n) ==
    UNION {{s \in [1..k -> S] : \A i, j \in 1..k : s[i] = s[j] => i = j}
           : k \in 0..n}

\* m with key k set to v (a Go map assignment)
Put(m, k, v) ==
    [x \in DOMAIN m \cup {k} |-> IF x = k THEN v ELSE m[x]]

\* the empty Go map
EmptyMap == [x \in {} |-> 0]

(***************************************************************************)
(* The packages on the search path.                                        *)
(***************************************************************************)
rootPath == github \o <<"/","r">>

\* the packages of the analysed project, root first
ProjectPaths ==
    <<rootPath,
      rootPath \o <<"/","a">>,
      rootPath \o <<"/","b">>,
      rootPath \o <<"/","c">>,
      rootPath \o <<"/","d">>,
      rootPath \o <<"/","e">>>>

\* a library hosted on a known third-party root
libPath == github \o <<"/","x">>
\* a different repository whose path has the root path as a string prefix
nearPath == github \o <<"/","r","x">>
\* a package of the standard library
fmtPath == <<"f","m","t">>
\* an import path that is not on the search path
missingPath == <<"n","o","s","u","c","h">>

\* build.Package.Goroot of a resolved package
Goroot(p) == p = fmtPath

VARIABLES
    imports,          \* the search path: import path -> build.Package.Imports
    rootPackage,      \* os.Args[1]
    isIncludeStdlib,  \* -stdlib
    isIncludeLibs,    \* -lib
    display,          \* -d, "" until main's switch reads it
    isShort,          \* -short, FALSE until a display reads it
    deps, numDeps, layerPos, depth, lowestLayer, maxDeps, progress,
    stack,            \* the frames of analyze, innermost last
    pc,               \* where the process is
    out,              \* the lines printed on standard output
    resolved,         \* the import paths handed to build.Import, in order
    expanded,         \* the <<path, layer>> of every expansion, in order
    first             \* the result of an earlier run on the same packages

vars ==
    <<imports, rootPackage, isIncludeStdlib, isIncludeLibs, display, isShort,
      deps,
      numDeps, layerPos, depth, lowestLayer, maxDeps, progress, stack, pc,
      out, resolved, expanded, first>>

config == <<imports, rootPackage, isIncludeStdlib, isIncludeLibs>>

\* no earlier run
NoRun == [run |-> 0]

(***************************************************************************)
(* Initial states: the flags are parsed, the maps are made (main, lines    *)
(* 83-94).  The search path is drawn from three families.                  *)
(***************************************************************************)
Fresh ==
    /\ display = ""
    /\ isShort = FALSE
    /\ deps = EmptyMap
    /\ numDeps = EmptyMap
    /\ layerPos = EmptyMap
    /\ depth = EmptyMap
    /\ lowestLayer = 0
    /\ maxDeps = 0
    /\ progress = 0
    /\ stack = <<>>
    /\ pc = "main"
    /\ out = <<>>
    /\ resolved = <<>>
    /\ expanded = <<>>

Project == {ProjectPaths[i] : i \in 1..NumPkgs}

\* the packages of the project after the i-th
Later(i) == {ProjectPaths[j] : j \in (i + 1)..NumPkgs}

\* the import lists of the i-th to the last package of the project, each
\* importing any sequence of distinct later packages
RECURSIVE ForwardGraphs(_)
ForwardGraphs(i) ==
    IF i > NumPkgs THEN {EmptyMap}
    ELSE {Put(g, ProjectPaths[i], s) :
            g \in ForwardGraphs(i + 1),
            s \in DistinctSeqs(Later(i), NumPkgs - i)}

\* the acyclic graphs in which every package imports at most one package
ChainGraphs ==
    {g \in ForwardGraphs(1) : \A p \in Project : Len(g[p]) <= 1}

\* The project family: every acyclic import graph of NumPkgs packages, up to
\* the names (the packages are listed in a topological order), and the graphs
\* of ChainGraphs with the last package importing one package of the project,
\* which closes a cycle when that package reaches the last.
ProjectGraphs ==
    LET last == ProjectPaths[NumPkgs]
    IN  ForwardGraphs(1) \cup
        {[g EXCEPT ![last] = <<back>>] : g \in ChainGraphs, back \in Project}

\* The mixed family: the root imports project packages, libraries, the
\* standard library, "C" and a missing package, and so does one package of
\* the project.
MixedGraphs ==
    LET a == ProjectPaths[2]
        all == {rootPath, a, libPath, nearPath, fmtPath}
        rootChoice ==
            DistinctSeqs({a, libPath, nearPath, fmtPath, CImport, missingPath},
                         MaxImports)
        aChoice ==
            DistinctSeqs({libPath, fmtPath, CImport, missingPath}, 1)
    IN  {[p \in all |->
            IF p = rootPath THEN r
            ELSE IF p = a THEN s
            ELSE IF p = libPath THEN <<fmtPath>>
            ELSE <<>>] : r \in rootChoice, s \in aChoice}

Init ==
    /\ Fresh
    /\ first = NoRun
    /\ \/ /\ imports \in ProjectGraphs
          /\ rootPackage = rootPath
          /\ isIncludeStdlib = FALSE
          /\ isIncludeLibs = FALSE
       \/ /\ imports \in MixedGraphs
          /\ rootPackage = rootPath
          /\ isIncludeStdlib \in BOOLEAN
          /\ isIncludeLibs \in BOOLEAN
       \/ /\ imports \in {[p \in {rootPath} |-> <<>>]}
          /\ rootPackage = missingPath
          /\ isIncludeStdlib = FALSE
          /\ isIncludeLibs = FALSE

(***************************************************************************)
(* The filtering policy.                                                   *)
(***************************************************************************)
\* isStdlib (deps.go 176-181)
isStdlib(p) ==
    IF isIncludeStdlib THEN FALSE ELSE Goroot(p)

\* isThirdParty without the test that keeps the packages under the root
isThirdPartyNoRootTest(p) ==
    IF isIncludeLibs THEN FALSE
    ELSE \E i \in 1..Len(thirdPartyRoots) : HasPrefix(p, thirdPartyRoots[i])

\* isThirdParty (deps.go 183-196)
isThirdParty(p) ==
    IF isIncludeLibs THEN FALSE
    ELSE IF HasPrefix(p, rootPackage) THEN FALSE
    ELSE \E i \in 1..Len(thirdPartyRoots) : HasPrefix(p, thirdPartyRoots[i])

\* build.Import(p, "", 0) returns an error
ImportFails(p) == p \notin DOMAIN imports

\* the import loop that resolves every import and only then looks at the errors
AttemptedAll(imps) ==
    SelectSeq(imps, LAMBDA p : p # CImport)

\* The import paths the loop of analyze hands to build.Import, in order: "C"
\* is skipped, and log.Fatal ends the loop at the first error
\* (deps.go 143-150).
Attempted(imps) ==
    LET failing == {i \in 1..Len(imps) :
                      imps[i] # CImport /\ ImportFails(imps[i])}
        upto == IF failing = {} THEN Len(imps) ELSE Least(failing)
    IN  SelectSeq(SubSeq(imps, 1, upto), LAMBDA p : p # CImport)

\* `ours` after the import loop over resolvable imports (deps.go 142-154)
Ours(imps) ==
    SelectSeq(imps, LAMBDA p :
        p # CImport /\ ~isStdlib(p) /\ ~isThirdParty(p))

(***************************************************************************)
(* analyze (deps.go 126-174), one action per stretch between two calls.    *)
(***************************************************************************)
Top == stack[Len(stack)]

Frame(path, layer) ==
    [pkg |-> path, layer |-> layer, phase |-> "enter", ours |-> <<>>,
     i |-> 1, ourDepth |-> 0]

\* depth[path], 0 for a missing key
DepthOf(path) == IF path \in DOMAIN depth THEN depth[path] ELSE 0

\* numDeps[path], 0 for a missing key
NumDepsOf(path) == IF path \in DOMAIN numDeps THEN numDeps[path] ELSE 0

\* deps[path], nil for a missing key
DepsOf(path) == IF path \in DOMAIN deps THEN deps[path] ELSE <<>>

\* the revisit test reading "already found at a shallower or equal layer"
RevisitShallower(path, layer) ==
    path \in DOMAIN layerPos /\ layer >= layerPos[path]

\* the revisit test that re-expands a package reached at its recorded layer
RevisitStrict(path, layer) ==
    path \in DOMAIN layerPos /\ layer < layerPos[path]

\* the revisit test left out
RevisitNever(path, layer) == FALSE

\* `val, ok := layerPos[path]; ok && layer <= val` (deps.go 135)
Revisit(path, layer) ==
    path \in DOMAIN layerPos /\ layer <= layerPos[path]

\* lowestLayer overwritten by every call
LowestLast(layer) == layer

\* lowestLayer after deps.go 131-133
NewLowest(layer) == IF layer > lowestLayer THEN layer ELSE lowestLayer

\* maxDeps overwritten by every expansion
MaxDepsLast(n) == n

\* maxDeps after deps.go 157-159
NewMaxDeps(n) == IF n > maxDeps THEN n ELSE maxDeps

\* ourDepth taking the depth of the last dependency
DeeperLast(d, ourDepth) == d

\* ourDepth after deps.go 165-167
Deeper(d, ourDepth) == IF d > ourDepth THEN d ELSE ourDepth

\* ourDepth incremented for a package without dependencies too
OwnDepthAlways(n, ourDepth) == ourDepth + 1

\* ourDepth after deps.go 169-171
OwnDepth(n, ourDepth) == IF n # 0 THEN ourDepth + 1 ELSE ourDepth

\* analyze called on the package itself
CalleeSelf(f) == f.pkg

\* innerPkg of the call analyze(innerPkg, layer+1) (deps.go 163-164)
Callee(f) == f.ours[f.i]

\* the range loop of deps.go 163 moves to the next dependency
NextIndex(i) == i + 1

\* The stack after the innermost analyze returns d: the caller's loop body
\* (deps.go 164-168) takes it, or main goes on (deps.go 102-104).
Returned(d) ==
    IF Len(stack) = 1 THEN <<>>
    ELSE LET caller == stack[Len(stack) - 1]
         IN  [SubSeq(stack, 1, Len(stack) - 1) EXCEPT ![Len(stack) - 1] =
                [caller EXCEPT !.ourDepth = Deeper(d, caller.ourDepth),
                               !.i = NextIndex(caller.i)]]

PcReturned == IF Len(stack) = 1 THEN "analyzed" ELSE "analyze"

\* main up to the call of analyze (deps.go 96-102)
Main ==
    /\ pc = "main"
    /\ out' = Append(out, [fmt |-> "Dependencies of %s", key |-> 0,
                           items |-> <<rootPackage>>])
    /\ resolved' = Append(resolved, rootPackage)
    /\ IF ImportFails(rootPackage)
       THEN /\ pc' = "fatal"
            /\ stack' = stack
       ELSE /\ pc' = "analyze"
            /\ stack' = <<Frame(rootPackage, 0)>>
    /\ UNCHANGED <<config, display, isShort, deps, numDeps, layerPos, depth,
                   lowestLayer, maxDeps, progress, expanded, first>>

\* analyze on a package already recorded at this layer or a deeper one
\* (deps.go 127-138)
AnalyzeRevisit ==
    /\ pc = "analyze"
    /\ Top.phase = "enter"
    /\ Revisit(Top.pkg, Top.layer)
    /\ progress' = progress + 1
    /\ lowestLayer' = NewLowest(Top.layer)
    /\ stack' = Returned(DepthOf(Top.pkg))
    /\ pc' = PcReturned
    /\ UNCHANGED <<config, display, isShort, deps, numDeps, layerPos, depth, maxDeps,
                   out, resolved, expanded, first>>

\* analyze expands a package: records its layer, resolves and filters its
\* imports (deps.go 127-160)
AnalyzeExpand ==
    /\ pc = "analyze"
    /\ Top.phase = "enter"
    /\ ~Revisit(Top.pkg, Top.layer)
    /\ LET path == Top.pkg
           tried == Attempted(imports[path])
           ours == Ours(imports[path])
       IN  /\ \A i \in 1..Len(tried) : ~ImportFails(tried[i])
           /\ progress' = progress + 1
           /\ lowestLayer' = NewLowest(Top.layer)
           /\ layerPos' = Put(layerPos, path, Top.layer)
           /\ resolved' = resolved \o tried
           /\ numDeps' = Put(numDeps, path, Len(ours))
           /\ maxDeps' = NewMaxDeps(Len(ours))
           /\ deps' = Put(deps, path, ours)
           /\ expanded' = Append(expanded, <<path, Top.layer>>)
           /\ stack' = [stack EXCEPT ![Len(stack)] =
                           [@ EXCEPT !.phase = "loop", !.ours = ours]]
    /\ UNCHANGED <<config, display, isShort, depth, pc, out, first>>

\* analyze expands a package and build.Import fails on one of its imports:
\* log.Fatal ends the process (deps.go 127-150)
AnalyzeFatal ==
    /\ pc = "analyze"
    /\ Top.phase = "enter"
    /\ ~Revisit(Top.pkg, Top.layer)
    /\ LET path == Top.pkg
           tried == Attempted(imports[path])
       IN  /\ \E i \in 1..Len(tried) : ImportFails(tried[i])
           /\ progress' = progress + 1
           /\ lowestLayer' = NewLowest(Top.layer)
           /\ layerPos' = Put(layerPos, path, Top.layer)
           /\ resolved' = resolved \o tried
           /\ expanded' = Append(expanded, <<path, Top.layer>>)
    /\ pc' = "fatal"
    /\ UNCHANGED <<config, display, isShort, deps, numDeps, depth, maxDeps, stack,
                   out, first>>

\* the loop over ours calls analyze on the next dependency (deps.go 163-164)
AnalyzeRecurse ==
    /\ pc = "analyze"
    /\ Top.phase = "loop"
    /\ Top.i <= Len(Top.ours)
    /\ Len(stack) < MaxStack
    /\ stack' = Append(stack, Frame(Callee(Top), Top.layer + 1))
    /\ UNCHANGED <<config, display, isShort, deps, numDeps, layerPos, depth,
                   lowestLayer, maxDeps, progress, pc, out, resolved,
                   expanded, first>>

\* the same call with the goroutine stack exhausted: the runtime ends the
\* process
StackOverflow ==
    /\ pc = "analyze"
    /\ Top.phase = "loop"
    /\ Top.i <= Len(Top.ours)
    /\ Len(stack) >= MaxStack
    /\ pc' = "overflow"
    /\ UNCHANGED <<config, display, isShort, deps, numDeps, layerPos, depth,
                   lowestLayer, maxDeps, progress, stack, out, resolved,
                   expanded, first>>

\* the loop over ours is over: analyze records the depth and returns it
\* (deps.go 169-173)
AnalyzeReturn ==
    /\ pc = "analyze"
    /\ Top.phase = "loop"
    /\ Top.i > Len(Top.ours)
    /\ LET d == OwnDepth(Len(Top.ours), Top.ourDepth)
       IN  /\ depth' = Put(depth, Top.pkg, d)
           /\ stack' = Returned(d)
    /\ pc' = PcReturned
    /\ UNCHANGED <<config, display, isShort, deps, numDeps, layerPos, lowestLayer,
                   maxDeps, progress, out, resolved, expanded, first>>

(***************************************************************************)
(* The displays.  A line of output is the format it is printed with, the   *)
(* number and the strings (joined with ", " where there are several).      *)
(* -d and -short are read by main's switch and by short only: their values *)
(* are drawn when they are read, and short and its callers are handed the  *)
(* value sh of *isShort.                                                   *)
(***************************************************************************)
Line(f, k, ss) == [fmt |-> f, key |-> k, items |-> ss]

\* short (deps.go 282-291)
short(name, sh) ==
    IF ~sh THEN name
    ELSE IF Len(name) <= Len(rootPackage) THEN name
    ELSE TrimSlash(ReplaceFirst(name, rootPackage))

\* one element of annotated's result (deps.go 267-272)
Annotate(pkgName, sh) ==
    IF NumDepsOf(pkgName) > 0
    THEN short(pkgName, sh) \o <<" ">> \o Itoa(NumDepsOf(pkgName))
    ELSE short(pkgName, sh)

\* annotated (deps.go 264-276)
annotated(pkgs, sh) ==
    SortStrings(CHOOSE r \in {[i \in 1..Len(v) |-> Annotate(v[i], sh)] :
                                 v \in {pkgs}} : TRUE)

\* The keys in S in one of the orders a range over the map can meet them.
\* Used where the code sorts what it collected, so that the order does not
\* show.
SeqOf(S) ==
    [k \in 1..Cardinality(S) |->
        CHOOSE p \in S : Cardinality({q \in S : StrLess(q, p)}) = k - 1]

\* every order a range over a map with the keys S can take
RECURSIVE Orders(_)
Orders(S) ==
    IF S = {} THEN {<<>>}
    ELSE UNION {{<<x>> \o p : p \in Orders(S \ {x})} : x \in S}

\* layers[lay] of layerDisplay (deps.go 235-240) indexes past the slice
LayerPanics == \E p \in DOMAIN layerPos : layerPos[p] > lowestLayer

\* the rows layerDisplay prints (deps.go 241-243)
LayerLines(sh) ==
    [l \in 1..(lowestLayer + 1) |->
        Line("%d: %s", l - 1,
             annotated(SeqOf({p \in DOMAIN layerPos : layerPos[p] = l - 1}),
                       sh))]

\* idxDepth[d] of depthDisplay (deps.go 247-253) indexes past the slice
DepthPanics(pkgName) ==
    \E p \in DOMAIN depth : depth[p] > DepthOf(pkgName)

\* the rows depthDisplay prints from bucket i down (deps.go 254-261)
RECURSIVE DepthLines(_, _)
DepthLines(i, sh) ==
    IF i < 0 THEN <<>>
    ELSE LET pkgs == SeqOf({p \in DOMAIN depth : depth[p] = i})
         IN  (IF Len(pkgs) = 0 THEN <<>>
              ELSE <<Line("%d %s", i, annotated(SortStrings(pkgs), sh))>>)
             \o DepthLines(i - 1, sh)

\* idxCount[count] of countDisplay (deps.go 216-222) indexes past the slice
CountPanics == \E p \in DOMAIN numDeps : numDeps[p] > maxDeps

\* What countDisplay can print from bucket i down (deps.go 217-230): the
\* range over numDeps meets the keys in any order, so a bucket holds its
\* packages in any order; the buckets are printed from the highest, the
\* empty ones skipped.
RECURSIVE CountLines(_)
CountLines(i) ==
    IF i < 0 THEN {<<>>}
    ELSE LET bucket == {p \in DOMAIN numDeps : numDeps[p] = i}
         IN  {(IF Len(pkgs) = 0 THEN <<>> ELSE <<Line("%d %s", i, pkgs)>>)
                \o below : pkgs \in Orders(bucket), below \in CountLines(i - 1)}

\* the lines of depsDisplay (deps.go 198-205)
DepsLines(pkgName, sh) ==
    (IF Len(DepsOf(pkgName)) = 0
     THEN <<Line("No internal dependencies", 0, <<>>)>>
     ELSE <<>>)
    \o [i \in 1..Len(DepsOf(pkgName)) |->
           Line("  %s", 0, <<short(DepsOf(pkgName)[i], sh)>>)]

\* the packages deepDepsDisplay is called on at depth k below those of S
RECURSIVE DeepCalls(_, _)
DeepCalls(S, k) ==
    IF k = 0 THEN S
    ELSE DeepCalls(UNION {Range(DepsOf(p)) : p \in S}, k - 1)

\* deepDepsDisplay never returns (deps.go 210-212): deps holds a cycle below
\* pkgName, and the goroutine's stack runs out
DeepOverflows(pkgName) ==
    DeepCalls({pkgName}, Cardinality(DOMAIN deps) + 1) # {}

\* the lines of deepDepsDisplay (deps.go 207-213); the number of a line is
\* its count of "| "
RECURSIVE DeepLines(_, _, _), DeepBelow(_, _, _, _)
DeepLines(pkgName, indent, sh) ==
    <<Line("%s%s", indent, <<short(pkgName, sh)>>)>>
    \o DeepBelow(pkgName, 1, indent + 1, sh)

\* deepDepsDisplay's loop over the dependencies (deps.go 210-212)
DeepBelow(pkgName, i, indent, sh) ==
    IF i > Len(DepsOf(pkgName)) THEN <<>>
    ELSE DeepLines(DepsOf(pkgName)[i], indent, sh)
         \o DeepBelow(pkgName, i + 1, indent, sh)

\* what a display leaves alone
DisplayFrame ==
    UNCHANGED <<config, deps, numDeps, layerPos, depth, lowestLayer, maxDeps,
                progress, stack, resolved, expanded, first>>

\* main's case "layers" (deps.go 107-110) and layerDisplay (233-244)
LayerDisplay ==
    /\ pc = "analyzed"
    /\ display' = "layers"
    /\ isShort' \in BOOLEAN
    /\ DisplayFrame
    /\ LET head == <<Line("Top-down dependency layers", 0, <<>>),
                     Line("Number after package name is number of imports",
                          0, <<>>)>>
       IN  IF LayerPanics
           THEN pc' = "panic" /\ out' = out \o head
           ELSE pc' = "done" /\ out' = out \o head \o LayerLines(isShort')

\* main's case "depth" (deps.go 111-114) and depthDisplay (246-262)
DepthDisplay ==
    /\ pc = "analyzed"
    /\ display' = "depth"
    /\ isShort' \in BOOLEAN
    /\ DisplayFrame
    /\ LET head == <<Line("Bottom-up dependency layers", 0, <<>>),
                     Line("Number after package name is number of imports",
                          0, <<>>)>>
       IN  IF DepthPanics(rootPackage)
           THEN pc' = "panic" /\ out' = out \o head
           ELSE /\ pc' = "done"
                /\ out' = out \o head
                              \o DepthLines(DepthOf(rootPackage), isShort')

\* main's case "deep" (deps.go 115-117) and deepDepsDisplay (207-213)
DeepDepsDisplay ==
    /\ pc = "analyzed"
    /\ display' = "deep"
    /\ isShort' \in BOOLEAN
    /\ DisplayFrame
    /\ LET head == <<Line("Dependency tree", 0, <<>>)>>
       IN  IF DeepOverflows(rootPackage)
           THEN pc' = "panic" /\ out' = out \o head
           ELSE /\ pc' = "done"
                /\ out' = out \o head \o DeepLines(rootPackage, 0, isShort')

\* main's case "count" (deps.go 118-120) and countDisplay (215-231)
CountDisplay ==
    /\ pc = "analyzed"
    /\ display' = "count"
    /\ UNCHANGED isShort
    /\ DisplayFrame
    /\ LET head ==
             <<Line("Packages by descending number of internal imports",
                    0, <<>>)>>
       IN  IF CountPanics
           THEN pc' = "panic" /\ out' = out \o head
           ELSE /\ pc' = "done"
                /\ \E lines \in CountLines(maxDeps) :
                      out' = out \o head \o lines

\* main's default case (deps.go 121-122) and depsDisplay (198-205)
DepsDisplay ==
    /\ pc = "analyzed"
    /\ display' = "deps"
    /\ isShort' \in BOOLEAN
    /\ DisplayFrame
    /\ pc' = "done"
    /\ out' = out \o DepsLines(rootPackage, isShort')

Next ==
    \/ Main
    \/ AnalyzeRevisit
    \/ AnalyzeExpand
    \/ AnalyzeFatal
    \/ AnalyzeRecurse
    \/ StackOverflow
    \/ AnalyzeReturn
    \/ LayerDisplay
    \/ DepthDisplay
    \/ DeepDepsDisplay
    \/ CountDisplay
    \/ DepsDisplay

Spec == Init /\ [][Next]_vars

(***************************************************************************)
(* A second run of the program on the same packages, two neighbours of one *)
(* import list exchanged.  Every reordering of the import lists is a       *)
(* sequence of such exchanges.                                             *)
(***************************************************************************)
\* what a finished run leaves
Result ==
    [run |-> 1, deps |-> deps, numDeps |-> numDeps, layerPos |-> layerPos,
     depth |-> depth, lowestLayer |-> lowestLayer, maxDeps |-> maxDeps]

\* s with its k-th and (k+1)-th elements exchanged
Swap(s, k) ==
    [i \in 1..Len(s) |->
        IF i = k THEN s[k + 1] ELSE IF i = k + 1 THEN s[k] ELSE s[i]]

\* the process is started again (main, deps.go 77-94) after analyze returned
Rerun ==
    /\ pc = "analyzed"
    /\ first.run = 0
    /\ first' = Result
    /\ \E p \in DOMAIN imports : \E k \in 1..(Len(imports[p]) - 1) :
          imports' = [imports EXCEPT ![p] = Swap(imports[p], k)]
    /\ display' = ""
    /\ isShort' = FALSE
    /\ deps' = EmptyMap
    /\ numDeps' = EmptyMap
    /\ layerPos' = EmptyMap
    /\ depth' = EmptyMap
    /\ lowestLayer' = 0
    /\ maxDeps' = 0
    /\ progress' = 0
    /\ stack' = <<>>
    /\ pc' = "main"
    /\ out' = <<>>
    /\ resolved' = <<>>
    /\ expanded' = <<>>
    /\ UNCHANGED <<rootPackage, isIncludeStdlib, isIncludeLibs>>

NextOrder == Next \/ Rerun

SpecOrder == Init /\ [][NextOrder]_vars

(***************************************************************************)
(* The import graph the claims speak of.                                   *)
(***************************************************************************)
\* a resolved package is excluded by the filtering policy
Excluded(p) ==
    \/ Goroot(p) /\ ~isIncludeStdlib
    \/ /\ ~isIncludeLibs
       /\ ~HasPrefix(p, rootPackage)
       /\ \E i \in 1..Len(thirdPartyRoots) : HasPrefix(p, thirdPartyRoots[i])

\* the owned dependencies of p
OwnedDeps(p) ==
    IF p \in DOMAIN imports
    THEN {q \in Range(imports[p]) : q # CImport /\ ~Excluded(q)}
    ELSE {}

NumPaths == Cardinality(DOMAIN imports)

\* the packages at the end of a path of k owned dependencies from one of S
RECURSIVE Ends(_, _)
Ends(S, k) ==
    IF k = 0 THEN S ELSE Ends(UNION {OwnedDeps(p) : p \in S}, k - 1)

\* no cycle of owned dependencies is reachable from the root
Acyclic == Ends({rootPackage}, NumPaths) = {}

\* the packages reachable from the root through owned dependencies
Reachable == UNION {Ends({rootPackage}, k) : k \in 0..(NumPaths - 1)}

Greatest(S) == CHOOSE x \in S : \A y \in S : y <= x

\* the edge counts of the paths from the root to p (on an acyclic graph)
PathLengths(p) == {k \in 0..(NumPaths - 1) : p \in Ends({rootPackage}, k)}

\* the length of the longest chain of owned dependencies from p
LongestChain(p) ==
    Greatest({k \in 0..(NumPaths - 1) : Ends({p}, k) # {}})

\* analyze(root, 0) has returned
Completed == pc \in {"analyzed", "done", "panic"}

\* some package was expanded more than once
Reexpanded ==
    \E i, j \in 1..Len(expanded) : i < j /\ expanded[i][1] = expanded[j][1]

\* the rows a grouping display printed, after the title and its own header
RowsOf(n) == SubSeq(out, n + 1, Len(out))

(***************************************************************************)
(* The claims.                                                             *)
(***************************************************************************)
\* C1, as claimed: once analyze(root, 0) has returned on an acyclic graph,
\* the layer of every package reachable from the root is the MINIMUM edge
\* count over the paths from the root to it.
C1_LayerIsShortestPath ==
    (Completed /\ Acyclic) =>
        \A p \in Reachable :
            p \in DOMAIN layerPos /\ layerPos[p] = Least(PathLengths(p))

\* C1, amended: once analyze(root, 0) has returned on an acyclic graph, the
\* layer of every package reachable from the root is the MAXIMUM edge count
\* over the paths from the root to it (the root has layer 0), whatever the
\* order of the import lists.
C1_LayerIsLongestPath ==
    (Completed /\ Acyclic) =>
        \A p \in Reachable :
            p \in DOMAIN layerPos /\ layerPos[p] = Greatest(PathLengths(p))

\* a finished analysis with a package reached by a short and by a long path
C1_Witness ==
    /\ Completed
    /\ \E p \in Reachable :
          /\ Least(PathLengths(p)) < Greatest(PathLengths(p))
          /\ layerPos[p] = Greatest(PathLengths(p))

\* C2: once analyze(root, 0) has returned, every package of deps has a
\* smaller layer than each of its owned dependencies, and layerDisplay prints
\* the dependency in a later row than the package.
C2_DependenciesBelow ==
    Completed =>
        \A p \in DOMAIN deps : \A i \in 1..Len(deps[p]) :
            /\ layerPos[p] < layerPos[deps[p][i]]
            /\ (pc = "done" /\ display = "layers") =>
                  \E r1, r2 \in 1..Len(RowsOf(3)) :
                      /\ r1 < r2
                      /\ Annotate(p, isShort) \in Range(RowsOf(3)[r1].items)
                      /\ Annotate(deps[p][i], isShort)
                            \in Range(RowsOf(3)[r2].items)

\* layerDisplay has printed a graph in which a package is imported from two
\* layers
C2_Witness ==
    /\ pc = "done"
    /\ display = "layers"
    /\ \E p \in DOMAIN deps, q \in DOMAIN deps :
          /\ p # q
          /\ Range(deps[p]) \cap Range(deps[q]) # {}
          /\ layerPos[p] < layerPos[q]

\* C3: once analyze(root, 0) has returned on an acyclic graph, the depth of
\* every recorded package is the length of the longest chain of owned
\* dependencies from it, and the root's depth is 0 exactly when the root has
\* no owned dependency.
C3_DepthIsLongestChain ==
    (Completed /\ Acyclic) =>
        /\ \A p \in DOMAIN depth : depth[p] = LongestChain(p)
        /\ rootPackage \in DOMAIN depth
        /\ (depth[rootPackage] = 0) <=> (OwnedDeps(rootPackage) = {})

\* a finished analysis of a chain of two dependencies in which a package was
\* expanded twice
C3_Witness ==
    /\ Completed
    /\ depth[rootPackage] >= 2
    /\ Reexpanded

\* C4: a path the resolver fails on is the last one handed to it, the
\* process has then ended (no step follows), and nothing but the title line
\* was printed: no display ran.
C4_ResolveErrorEndsProcess ==
    /\ \A i \in 1..Len(resolved) :
          resolved[i] \notin DOMAIN imports =>
              /\ i = Len(resolved)
              /\ pc = "fatal"
              /\ display = ""
              /\ Len(out) = 1
    /\ pc = "fatal" => ~ENABLED Next

\* the resolver failed on an import that another import follows, below the
\* root or in it
C4_Witness ==
    /\ pc = "fatal"
    /\ stack # <<>>
    /\ \E k \in 1..(Len(imports[Top.pkg]) - 1) :
          /\ imports[Top.pkg][k] \notin DOMAIN imports
          /\ imports[Top.pkg][k] # CImport
          /\ imports[Top.pkg][k + 1] # CImport
          /\ imports[Top.pkg][k + 1] \notin Range(resolved)

\* C5: deps[P] of every expanded package is the subsequence of its imports
\* other than "C" that the filtering policy does not exclude, and "C" is
\* never handed to the resolver.
C5_DepsAreOwnedImports ==
    /\ \A p \in DOMAIN deps :
          deps[p] = SelectSeq(imports[p],
                              LAMBDA q : q # CImport /\ ~Excluded(q))
    /\ \A i \in 1..Len(resolved) : resolved[i] # CImport

\* a package importing "C" was expanded, and one with a dependency kept
\* although it is under a third-party root and one excluded
C5_Witness ==
    /\ \E p \in DOMAIN deps : CImport \in Range(imports[p])
    /\ \E p \in DOMAIN deps :
          /\ \E q \in Range(deps[p]) : HasPrefix(q, github)
          /\ \E q \in Range(imports[p]) : q # CImport /\ Excluded(q)

\* C6: once analyze(root, 0) has returned, every depth is within
\* 0..depth[root] and every count within 0..maxDeps; depthDisplay and
\* countDisplay do not index out of range, print their rows in strictly
\* descending key order, print no empty row, and print every key in exactly
\* one row, the row of its depth (of its count).
C6_BucketsInRange ==
    /\ Completed =>
          /\ \A p \in DOMAIN depth : depth[p] \in 0..DepthOf(rootPackage)
          /\ \A p \in DOMAIN numDeps : numDeps[p] \in 0..maxDeps
    /\ display = "depth" =>
          /\ pc = "done"
          /\ \A i, j \in 1..Len(RowsOf(3)) :
                i < j => RowsOf(3)[i].key > RowsOf(3)[j].key
          /\ \A i \in 1..Len(RowsOf(3)) : RowsOf(3)[i].items # <<>>
          /\ \A p \in DOMAIN depth :
                {RowsOf(3)[i].key : i \in
                    {i \in 1..Len(RowsOf(3)) :
                        Annotate(p, isShort) \in Range(RowsOf(3)[i].items)}}
                = {depth[p]}
    /\ display = "count" =>
          /\ pc = "done"
          /\ \A i, j \in 1..Len(RowsOf(2)) :
                i < j => RowsOf(2)[i].key > RowsOf(2)[j].key
          /\ \A i \in 1..Len(RowsOf(2)) : RowsOf(2)[i].items # <<>>
          /\ \A p \in DOMAIN numDeps :
                {RowsOf(2)[i].key : i \in
                    {i \in 1..Len(RowsOf(2)) :
                        p \in Range(RowsOf(2)[i].items)}}
                = {numDeps[p]}

\* countDisplay has printed its rows and skipped an empty bucket
C6_Witness ==
    /\ pc = "done"
    /\ display = "count"
    /\ maxDeps >= 2
    /\ \A p \in DOMAIN numDeps : numDeps[p] # 1
    /\ Len(RowsOf(2)) = 2

\* C7, as claimed: on every import graph, cyclic ones included, the
\* traversal neither exhausts the stack nor stops before analyze(root, 0)
\* has returned or the resolver failed.
C7_TerminatesOnEveryGraph ==
    /\ pc # "overflow"
    /\ pc \in {"main", "analyze"} => ENABLED Next

\* C7, amended: on every acyclic import graph the traversal neither exhausts
\* the stack nor stops before analyze(root, 0) has returned or the resolver
\* failed.
C7_TerminatesOnAcyclicGraphs ==
    Acyclic =>
        /\ pc # "overflow"
        /\ pc \in {"main", "analyze"} => ENABLED Next

\* analyze(root, 0) has returned on an acyclic graph after expanding a
\* package more than once
C7_Witness ==
    /\ Acyclic
    /\ pc = "analyzed"
    /\ Reexpanded

\* analyze is entered on a package that has a recorded layer
Reentered ==
    /\ pc = "analyze"
    /\ Top.phase = "enter"
    /\ Top.pkg \in DOMAIN layerPos

\* the step returns the memoized depth and expands nothing
ReturnsMemoized ==
    /\ UNCHANGED <<layerPos, deps, numDeps, depth, maxDeps, resolved, expanded>>
    /\ Len(stack') = Len(stack) - 1
    /\ Len(stack) > 1 =>
          stack'[Len(stack')].ourDepth =
              Greatest({stack[Len(stack) - 1].ourDepth, DepthOf(Top.pkg)})

\* the step expands the package again at the layer it is reached at
ExpandsAgain ==
    /\ expanded' = Append(expanded, <<Top.pkg, Top.layer>>)
    /\ layerPos'[Top.pkg] = Top.layer

\* C8, as claimed: a package with a recorded layer that is reached at the
\* same or a GREATER layer is not expanded again and its memoized depth is
\* returned; it is expanded again only when reached at a strictly SHALLOWER
\* layer; and a package without owned dependencies is expanded only once.
C8_ReexpandedOnlyShallower ==
    /\ [][Reentered =>
            IF Top.layer >= layerPos[Top.pkg]
            THEN ReturnsMemoized ELSE ExpandsAgain]_vars
    /\ [](\A i, j \in 1..Len(expanded) :
            (i < j /\ expanded[i][1] = expanded[j][1])
                => OwnedDeps(expanded[i][1]) # {})

\* C8, amended: a package with a recorded layer that is reached at the same
\* or a SMALLER layer is not expanded again and its memoized depth is
\* returned; it is expanded again only when reached at a strictly DEEPER
\* layer; so a package (a shared leaf too) is expanded once per strictly
\* deeper layer it is reached at, and only once when it is not reached
\* deeper again.
C8_ReexpandedOnlyDeeper ==
    /\ [][Reentered =>
            IF Top.layer <= layerPos[Top.pkg]
            THEN ReturnsMemoized ELSE ExpandsAgain]_vars
    /\ [](\A i, j \in 1..Len(expanded) :
            (i < j /\ expanded[i][1] = expanded[j][1])
                => expanded[i][2] < expanded[j][2])

\* a package was expanded twice, and a package reached again was not
\* expanded
C8_Witness ==
    /\ Reexpanded
    /\ progress > Len(expanded)
    /\ pc = "analyzed"

\* C9: two runs on the same packages that differ in the order of an import
\* list and both see analyze(root, 0) return end with the same layerPos,
\* depth, numDeps, lowestLayer and maxDeps, the same keys of deps and the
\* same set of dependencies under each key.
C9_OrderIndependent ==
    (first.run = 1 /\ Completed) =>
        /\ layerPos = first.layerPos
        /\ depth = first.depth
        /\ numDeps = first.numDeps
        /\ lowestLayer = first.lowestLayer
        /\ maxDeps = first.maxDeps
        /\ DOMAIN deps = DOMAIN first.deps
        /\ \A p \in DOMAIN deps : Range(deps[p]) = Range(first.deps[p])

\* the second run has finished with the dependencies of a package in
\* another order than in the first, a package having been expanded twice
C9_Witness ==
    /\ first.run = 1
    /\ Completed
    /\ Reexpanded
    /\ \E p \in DOMAIN deps : deps[p] # first.deps[p]

\* C10: once analyze(root, 0) has returned, the recorded layers are exactly
\* 0..lowestLayer, and layerDisplay does not index out of range and prints
\* lowestLayer + 1 rows, none of them empty.
C10_LayersContiguous ==
    /\ Completed =>
          {layerPos[p] : p \in DOMAIN layerPos} = 0..lowestLayer
    /\ display = "layers" =>
          /\ pc = "done"
          /\ Len(RowsOf(3)) = lowestLayer + 1
          /\ \A i \in 1..Len(RowsOf(3)) :
                /\ RowsOf(3)[i].key = i - 1
                /\ RowsOf(3)[i].items # <<>>

\* layerDisplay has printed three rows or more of a graph in which a package
\* was expanded twice
C10_Witness ==
    /\ pc = "done"
    /\ display = "layers"
    /\ lowestLayer >= 2
    /\ Reexpanded

=============================================================================
